---- MODULE Spec2Model ----
(***************************************************************************)
(* A model of the analysis pipeline of llm_industry_report:                *)
(* src/analysis.py (AnalysisEngine) and its caller src/app.py (main).      *)
(*                                                                         *)
(* Python values are modelled as tagged records [t, s, n, l]:              *)
(*   str  : s is the sequence of its characters (one-character strings)    *)
(*   num  : n is an integer (JSON numbers are modelled as integers)        *)
(*   bool : n is 1 for True and 0 for False      null : Python None        *)
(*   list : l is the sequence of its items                                 *)
(*   dict : l is the sequence of its entries [k, v] in insertion order,    *)
(*          k being the key (the sequence of its characters)               *)
(*   tenths: a float, n being ten times its value                          *)
(*   raise: a raised exception, s holding its Python type name             *)
(* (the fields a tag does not use are empty or 0).                         *)
(***************************************************************************)
EXTENDS Integers, Sequences, FiniteSets, TLC

VARIABLES
    pc,          \* control position of the running call
    raw_data,    \* the RawMarketData handed to analyze_trends / preprocess_data
    data,        \* the preprocessed data (preprocess_data's result)
    max_items,   \* chunk_data's max_items argument
    chunks,      \* chunk_data's result
    responses,   \* structured_analysis: the responses parsed in this attempt
    merged,      \* merge_responses' result
    results,     \* analyze_trends: the results of the calls that returned
    analysis,    \* analyze_trends / postprocess_analysis: the analysis mapping
    analysis_in, \* the analysis as it entered postprocess_analysis
    atype,       \* analyze_trends: index of the analysis type being run
    attempt,     \* structured_analysis: number of the running attempt
    idx,         \* structured_analysis: index of the next chunk to send
    report,      \* app.main: the report variable
    hist         \* observations of the run (not program state)

vars == <<pc, raw_data, data, max_items, chunks, responses, merged, results,
          analysis, analysis_in, atype, attempt, idx, report, hist>>

----------------------------------------------------------------------------
(* Bounds of the model.                                                    *)

MaxNews == 22        \* news items offered to chunk_data: 0..MaxNews
MaxLines == 12       \* lines of search_results offered to chunk_data
MaxItems == 6        \* values of chunk_data's max_items: 1..MaxItems

----------------------------------------------------------------------------
(* Python values.                                                          *)

Val(tag, chars, num, kids) == [t |-> tag, s |-> chars, n |-> num, l |-> kids]
Str(s) == Val("str", s, 0, <<>>)
Num(n) == Val("num", <<>>, n, <<>>)
Bool(b) == Val("bool", <<>>, IF b THEN 1 ELSE 0, <<>>)
None == Val("null", <<>>, 0, <<>>)
List(items) == Val("list", <<>>, 0, items)
Dict(entries) == Val("dict", <<>>, 0, entries)
Raise(e) == Val("raise", <<e>>, 0, <<>>)
KV(key, val) == [k |-> key, v |-> val]

IsStr(x) == x.t = "str"
IsNum(x) == x.t = "num"
IsBool(x) == x.t = "bool"
IsNone(x) == x.t = "null"
IsList(x) == x.t = "list"
IsDict(x) == x.t = "dict"
IsRaise(x) == x.t = "raise"

Min(a, b) == IF a <= b THEN a ELSE b

\* seq[:n]
Take(seq, n) == SubSeq(seq, 1, Min(n, Len(seq)))

\* seq[i:j] with 0-based Python indices, 0 <= i
Slice(seq, i, j) == SubSeq(seq, i + 1, Min(j, Len(seq)))

RECURSIVE Flatten(_)
Flatten(ss) == IF ss = <<>> THEN <<>> ELSE Head(ss) \o Flatten(Tail(ss))

\* dict: key in d
Has(d, key) == \E i \in 1..Len(d.l) : d.l[i].k = key

\* dict: d[key], for a key d has
Get(d, key) == d.l[CHOOSE i \in 1..Len(d.l) : d.l[i].k = key].v

\* dict: d.get(key, default)
GetOr(d, key, default) == IF Has(d, key) THEN Get(d, key) ELSE default

\* dict: d[key] = val (an existing key keeps its position)
Put(d, key, val) ==
    IF Has(d, key)
    THEN Dict([i \in 1..Len(d.l) |-> IF d.l[i].k = key THEN KV(key, val) ELSE d.l[i]])
    ELSE Dict(Append(d.l, KV(key, val)))

\* dict: list(d.keys())
Keys(d) == [i \in 1..Len(d.l) |-> d.l[i].k]

KeySet(d) == {d.l[i].k : i \in 1..Len(d.l)}

----------------------------------------------------------------------------
(* Python strings.                                                         *)

NL == "\n"
LowerLetters == <<"a", "b", "c", "d", "e", "f", "g", "h", "i", "j", "k", "l", "m",
                  "n", "o", "p", "q", "r", "s", "t", "u", "v", "w", "x", "y", "z">>
UpperLetters == <<"A", "B", "C", "D", "E", "F", "G", "H", "I", "J", "K", "L", "M",
                  "N", "O", "P", "Q", "R", "S", "T", "U", "V", "W", "X", "Y", "Z">>

\* the keys the program names
k_news == <<"n", "e", "w", "s">>
k_trends == <<"t", "r", "e", "n", "d", "s">>
k_competitive_landscape == <<"c", "o", "m", "p", "e", "t", "i", "t", "i", "v", "e", "_", "l", "a", "n", "d", "s", "c", "a", "p", "e">>
k_summary == <<"s", "u", "m", "m", "a", "r", "y">>
k_strengths == <<"s", "t", "r", "e", "n", "g", "t", "h", "s">>
k_weaknesses == <<"w", "e", "a", "k", "n", "e", "s", "s", "e", "s">>
k_opportunities == <<"o", "p", "p", "o", "r", "t", "u", "n", "i", "t", "i", "e", "s">>
k_threats == <<"t", "h", "r", "e", "a", "t", "s">>
k_competitors == <<"c", "o", "m", "p", "e", "t", "i", "t", "o", "r", "s">>
k_top_competitors == <<"t", "o", "p", "_", "c", "o", "m", "p", "e", "t", "i", "t", "o", "r", "s">>
k_name == <<"n", "a", "m", "e">>
k_market_share == <<"m", "a", "r", "k", "e", "t", "_", "s", "h", "a", "r", "e">>
k_impact_score == <<"i", "m", "p", "a", "c", "t", "_", "s", "c", "o", "r", "e">>
k_swot == <<"s", "w", "o", "t">>
k_evidence == <<"e", "v", "i", "d", "e", "n", "c", "e">>
k_metadata == <<"m", "e", "t", "a", "d", "a", "t", "a">>
k_processing_date == <<"p", "r", "o", "c", "e", "s", "s", "i", "n", "g", "_", "d", "a", "t", "e">>
k_data_sources == <<"d", "a", "t", "a", "_", "s", "o", "u", "r", "c", "e", "s">>
k_model_version == <<"m", "o", "d", "e", "l", "_", "v", "e", "r", "s", "i", "o", "n">>
k_quality_score == <<"q", "u", "a", "l", "i", "t", "y", "_", "s", "c", "o", "r", "e">>
k_recent_activity == <<"r", "e", "c", "e", "n", "t", "_", "a", "c", "t", "i", "v", "i", "t", "y">>
k_market_news == <<"m", "a", "r", "k", "e", "t", "_", "n", "e", "w", "s">>
k_articles == <<"a", "r", "t", "i", "c", "l", "e", "s">>
k_title == <<"t", "i", "t", "l", "e">>
k_description == <<"d", "e", "s", "c", "r", "i", "p", "t", "i", "o", "n">>
k_organic_results == <<"o", "r", "g", "a", "n", "i", "c", "_", "r", "e", "s", "u", "l", "t", "s">>
k_snippet == <<"s", "n", "i", "p", "p", "e", "t">>
k_search_results == <<"s", "e", "a", "r", "c", "h", "_", "r", "e", "s", "u", "l", "t", "s">>

\* str.split('\n'): the pieces between the separators, '' giving ['']
RECURSIVE SplitFrom(_, _, _)
SplitFrom(s, i, cur) ==
    IF i > Len(s) THEN <<cur>>
    ELSE IF s[i] = NL THEN <<cur>> \o SplitFrom(s, i + 1, <<>>)
    ELSE SplitFrom(s, i + 1, Append(cur, s[i]))
split(s) == SplitFrom(s, 1, <<>>)

\* '\n'.join(parts)
RECURSIVE join(_)
join(parts) ==
    IF parts = <<>> THEN <<>>
    ELSE IF Len(parts) = 1 THEN parts[1]
    ELSE parts[1] \o <<NL>> \o join(Tail(parts))

----------------------------------------------------------------------------
(* chunk_data (src/analysis.py:82-96).                                     *)

\* a chunker that also emits the final partial news batch
RECURSIVE news_loop_keep_partial(_, _, _, _)
news_loop_keep_partial(articles, current_chunk, out, bound) ==
    IF articles = <<>>
    THEN IF current_chunk = <<>> THEN out
         ELSE Append(out, Dict(<<KV(k_news, List(current_chunk))>>))
    ELSE LET cur == Append(current_chunk, Dict(<<KV(k_news, Head(articles))>>))
         IN  IF Len(cur) >= bound
             THEN news_loop_keep_partial(Tail(articles), <<>>,
                            Append(out, Dict(<<KV(k_news, List(cur))>>)), bound)
             ELSE news_loop_keep_partial(Tail(articles), cur, out, bound)

\* the loop over data.get('news', [])[:20]
RECURSIVE news_loop(_, _, _, _)
news_loop(articles, current_chunk, out, bound) ==
    IF articles = <<>> THEN out
    ELSE LET cur == Append(current_chunk, Dict(<<KV(k_news, Head(articles))>>))
         IN  IF Len(cur) >= bound
             THEN news_loop(Tail(articles), <<>>,
                            Append(out, Dict(<<KV(k_news, List(cur))>>)), bound)
             ELSE news_loop(Tail(articles), cur, out, bound)

\* a chunker that drops the final partial search-result batch
RECURSIVE search_loop_drop_partial(_, _, _, _)
search_loop_drop_partial(search_items, i, out, bound) ==
    IF i + bound > Len(search_items) THEN out
    ELSE search_loop_drop_partial(search_items, i + bound,
                     Append(out, Dict(<<KV(k_search_results,
                                           List(Slice(search_items, i, i + bound)))>>)),
                     bound)

\* the loop for i in range(0, len(search_items), max_items)
RECURSIVE search_loop(_, _, _, _)
search_loop(search_items, i, out, bound) ==
    IF i >= Len(search_items) THEN out
    ELSE search_loop(search_items, i + bound,
                     Append(out, Dict(<<KV(k_search_results,
                                           List(Slice(search_items, i, i + bound)))>>)),
                     bound)

NewsLimit == 20
SearchLimit == 10
DefaultMaxItems == 5

chunk_data(d, bound) ==
    LET articles == Take(GetOr(d, k_news, List(<<>>)).l, NewsLimit)
        news_chunks == news_loop(articles, <<>>, <<>>, bound)
        lines == split(GetOr(d, k_search_results, Str(<<>>)).s)
        search_items == Take([i \in 1..Len(lines) |-> Str(lines[i])], SearchLimit)
    IN  search_loop(search_items, 0, news_chunks, bound)

----------------------------------------------------------------------------
(* Specification SpecChunk: chunk_data applied to bounded inputs.          *)

Idle == None

\* the i-th news item of a generated input: a one-letter string
NewsItem(i) == Str(<<LowerLetters[i]>>)

\* the j-th line of a generated search_results string: 0, 1 or 2 letters
LineOf(j, shape) == [c \in 1..((j + shape) % 3) |-> LowerLetters[j]]

MkData(n, k, shape) ==
    Dict(<<KV(k_news, List([i \in 1..n |-> NewsItem(i)])),
           KV(k_search_results, Str(join([j \in 1..k |-> LineOf(j, shape)])))>>)

InitChunk ==
    /\ pc = "chunk_data"
    /\ \E n \in 0..MaxNews, k \in 1..MaxLines, shape \in 0..2 :
          /\ data = MkData(n, k, shape)
          /\ hist = [j \in 1..k |-> LineOf(j, shape)]
    /\ max_items \in 1..MaxItems
    /\ chunks = <<>>
    /\ raw_data = Idle /\ responses = <<>> /\ merged = Idle
    /\ analysis = Idle /\ analysis_in = Idle
    /\ results = <<>> /\ atype = 0 /\ attempt = 0 /\ idx = 0 /\ report = None

CallChunkData ==
    /\ pc = "chunk_data"
    /\ chunks' = chunk_data(data, max_items)
    /\ pc' = "chunk_data_done"
    /\ UNCHANGED <<raw_data, data, max_items, responses, merged, results, analysis,
                   analysis_in, atype, attempt, idx, report, hist>>

NextChunk == CallChunkData

SpecChunk == InitChunk /\ [][NextChunk]_vars

NewsChunks == SelectSeq(chunks, LAMBDA c : Has(c, k_news))
SearchChunks == SelectSeq(chunks, LAMBDA c : Has(c, k_search_results))
NewsOf(c) == Get(c, k_news).l
LinesOfChunk(c) == Get(c, k_search_results).l
CeilDiv(a, b) == (a + b - 1) \div b

\* C5: chunk_data emits exactly floor(min(n,20)/b) news chunks, each of exactly
\* b items (every item the article wrapped as {'news': article}), whose
\* concatenation is the first b*floor(min(n,20)/b) news items in their original
\* order; the trailing items that do not fill a batch are in no chunk.
C5_NewsChunks ==
    pc = "chunk_data_done" =>
        LET items == Get(data, k_news).l
            q == Min(Len(items), 20) \div max_items
            nc == NewsChunks
            wrapped == Flatten([i \in 1..Len(nc) |-> NewsOf(nc[i])])
        IN  /\ Len(nc) = q
            /\ \A i \in 1..Len(nc) :
                  /\ Keys(nc[i]) = <<k_news>>
                  /\ IsList(Get(nc[i], k_news))
                  /\ Len(NewsOf(nc[i])) = max_items
            /\ \A i \in 1..Len(wrapped) : Keys(wrapped[i]) = <<k_news>>
            /\ [i \in 1..Len(wrapped) |-> Get(wrapped[i], k_news)]
                  = SubSeq(items, 1, q * max_items)

\* C5 witness: 12 news items and a bound of 5 gave 2 news chunks covering 10 items.
C5_Witness ==
    /\ pc = "chunk_data_done"
    /\ Len(Get(data, k_news).l) = 12
    /\ max_items = 5
    /\ Len(NewsChunks) = 2

\* C6: after all news chunks chunk_data emits exactly ceil(min(k,10)/b)
\* search-result chunks for a search_results string of k lines; each but the
\* last holds b lines, the last the remainder, and their concatenation is the
\* first min(k,10) lines in original order.
C6_SearchChunks ==
    pc = "chunk_data_done" =>
        LET s == Get(data, k_search_results).s
            k == 1 + Cardinality({i \in 1..Len(s) : s[i] = NL})
            m == Min(k, 10)
            sc == SearchChunks
            q == CeilDiv(m, max_items)
        IN  /\ k = Len(hist)
            /\ Len(sc) = q
            /\ \A i \in 1..Len(chunks), j \in 1..Len(chunks) :
                  (Has(chunks[i], k_search_results) /\ Has(chunks[j], k_news)) => j < i
            /\ \A i \in 1..Len(sc) :
                  /\ Keys(sc[i]) = <<k_search_results>>
                  /\ Len(LinesOfChunk(sc[i]))
                        = IF i < q THEN max_items ELSE m - max_items * (q - 1)
            /\ Flatten([i \in 1..Len(sc) |-> LinesOfChunk(sc[i])])
                  = [j \in 1..m |-> Str(hist[j])]

\* C6 witness: 7 lines and a bound of 5 gave search-result chunks of sizes 5 and 2.
C6_Witness ==
    /\ pc = "chunk_data_done"
    /\ Len(hist) = 7
    /\ max_items = 5
    /\ Len(SearchChunks) = 2
    /\ Len(LinesOfChunk(SearchChunks[1])) = 5
    /\ Len(LinesOfChunk(SearchChunks[2])) = 2

----------------------------------------------------------------------------
(* str(), repr() and the string methods the program calls.                 *)

Whitespace == {" ", NL, "\t"}
DigitChars == <<"0", "1", "2", "3", "4", "5", "6", "7", "8", "9">>

RECURSIVE Digits(_)
Digits(n) ==
    IF n < 0 THEN <<"-">> \o Digits(0 - n)
    ELSE IF n < 10 THEN <<DigitChars[n + 1]>>
    ELSE Digits(n \div 10) \o <<DigitChars[(n % 10) + 1]>>

\* str.strip()
RECURSIVE lstrip(_)
lstrip(s) == IF s # <<>> /\ Head(s) \in Whitespace THEN lstrip(Tail(s)) ELSE s
RECURSIVE rstrip(_)
rstrip(s) ==
    IF s # <<>> /\ s[Len(s)] \in Whitespace THEN rstrip(SubSeq(s, 1, Len(s) - 1)) ELSE s
strip(s) == rstrip(lstrip(s))

Upper(c) ==
    IF \E i \in 1..26 : LowerLetters[i] = c
    THEN UpperLetters[CHOOSE i \in 1..26 : LowerLetters[i] = c] ELSE c
Lower(c) ==
    IF \E i \in 1..26 : UpperLetters[i] = c
    THEN LowerLetters[CHOOSE i \in 1..26 : UpperLetters[i] = c] ELSE c

\* a capitalize that leaves the characters after the first as they are
upper_first(s) == [i \in 1..Len(s) |-> IF i = 1 THEN Upper(s[i]) ELSE s[i]]

\* str.capitalize(): the first character upper-cased, all the others lower-cased
capitalize(s) == [i \in 1..Len(s) |-> IF i = 1 THEN Upper(s[i]) ELSE Lower(s[i])]

\* ', '.join(parts)
RECURSIVE comma_join(_)
comma_join(parts) ==
    IF parts = <<>> THEN <<>>
    ELSE IF Len(parts) = 1 THEN parts[1]
    ELSE parts[1] \o <<",", " ">> \o comma_join(Tail(parts))

\* repr() of a str: quoted, a newline and a tab escaped
repr_str(s) ==
    <<"'">> \o Flatten([i \in 1..Len(s) |->
                 IF s[i] = NL THEN <<"\\", "n">>
                 ELSE IF s[i] = "\t" THEN <<"\\", "t">> ELSE <<s[i]>>]) \o <<"'">>

\* repr() of a value
RECURSIVE repr(_)
repr(x) ==
    CASE IsStr(x) -> repr_str(x.s)
      [] IsNum(x) -> Digits(x.n)
      [] IsBool(x) -> IF x.n = 1 THEN <<"T", "r", "u", "e">> ELSE <<"F", "a", "l", "s", "e">>
      [] IsNone(x) -> <<"N", "o", "n", "e">>
      [] IsList(x) -> <<"[">> \o comma_join([i \in 1..Len(x.l) |-> repr(x.l[i])]) \o <<"]">>
      [] IsDict(x) ->
           <<"{">> \o comma_join([i \in 1..Len(x.l) |->
                         repr_str(x.l[i].k) \o <<":", " ">> \o repr(x.l[i].v)]) \o <<"}">>

\* str() of a value, as an f-string formats it
str(x) == IF IsStr(x) THEN x.s ELSE repr(x)

----------------------------------------------------------------------------
(* merge_responses (src/analysis.py:98-109).                               *)

\* an update in which the entries already present win
RECURSIVE update_first_wins(_, _)
update_first_wins(cur, other) ==
    IF other.l = <<>> THEN cur
    ELSE update_first_wins(IF Has(cur, Head(other.l).k) THEN cur
                           ELSE Put(cur, Head(other.l).k, Head(other.l).v),
                           Dict(Tail(other.l)))

\* dict.update(other): entry by entry, the later value replacing the earlier
RECURSIVE update(_, _)
update(cur, other) ==
    IF other.l = <<>> THEN cur
    ELSE update(Put(cur, Head(other.l).k, Head(other.l).v), Dict(Tail(other.l)))

\* a merge step whose list branch assigns instead of extending
merge_value_assign_list(m, key, value) ==
    IF IsList(value) THEN Put(m, key, value)
    ELSE IF IsDict(value)
    THEN LET cur == GetOr(m, key, Dict(<<>>))
         IN  IF IsDict(cur) THEN Put(m, key, update(cur, value))
             ELSE Raise("AttributeError")
    ELSE Put(m, key, Str(strip(str(GetOr(m, key, Str(<<>>))) \o <<NL>> \o str(value))))

\* the body of the inner loop, lines 102-107
merge_value(m, key, value) ==
    IF IsList(value)
    THEN LET cur == GetOr(m, key, List(<<>>))
         IN  IF IsList(cur) THEN Put(m, key, List(cur.l \o value.l))
             ELSE Raise("AttributeError")
    ELSE IF IsDict(value)
    THEN LET cur == GetOr(m, key, Dict(<<>>))
         IN  IF IsDict(cur) THEN Put(m, key, update(cur, value))
             ELSE Raise("AttributeError")
    ELSE Put(m, key, Str(strip(str(GetOr(m, key, Str(<<>>))) \o <<NL>> \o str(value))))

\* for key, value in response.items()
RECURSIVE merge_items(_, _)
merge_items(m, items) ==
    IF IsRaise(m) \/ items = <<>> THEN m
    ELSE merge_items(merge_value(m, Head(items).k, Head(items).v), Tail(items))

\* for response in responses; a response that is no mapping has no items()
RECURSIVE merge_loop(_, _)
merge_loop(m, rs) ==
    IF IsRaise(m) \/ rs = <<>> THEN m
    ELSE IF ~IsDict(Head(rs)) THEN Raise("AttributeError")
    ELSE merge_loop(merge_items(m, Head(rs).l), Tail(rs))

merge_responses(rs) == merge_loop(Dict(<<>>), rs)

----------------------------------------------------------------------------
(* Specification SpecMerge: merge_responses applied to bounded inputs.     *)

MaxResponses == 3    \* responses handed to merge_responses: 0..MaxResponses

k_k == <<"k">>
k_j == <<"j">>
k_x == <<"x">>
k_y == <<"y">>
k_p == <<"p">>
k_q == <<"q">>

sA == Str(<<"a">>)
sB == Str(<<"B">>)

MergeValues ==
    { Str(<<>>), sA, Str(<<"a", " ">>), Str(<<" ", "B">>), Str(<<" ">>), Str(<<NL, "a">>),
      List(<<>>), List(<<sA>>), List(<<sB, sA>>),
      Dict(<<KV(k_x, sA)>>),
      Dict(<<KV(k_y, sB), KV(k_x, sB)>>),
      Dict(<<KV(k_x, Dict(<<KV(k_p, sA)>>))>>),
      Dict(<<KV(k_x, Dict(<<KV(k_q, sB)>>))>>),
      Num(7) }

MergeResponses ==
    { Dict(<<>>), List(<<>>) }
    \cup { Dict(<<KV(k_k, v)>>) : v \in MergeValues }
    \cup { Dict(<<KV(k_j, List(<<sB>>)), KV(k_k, sB)>>),
           Dict(<<KV(k_k, List(<<sB>>)), KV(k_j, sA)>>) }

SeqsUpTo(S, n) == UNION {[1..m -> S] : m \in 0..n}

InitMerge ==
    /\ pc = "merge_responses"
    /\ responses \in SeqsUpTo(MergeResponses, MaxResponses)
    /\ merged = Idle
    /\ raw_data = Idle /\ data = Idle /\ max_items = DefaultMaxItems /\ chunks = <<>>
    /\ analysis = Idle /\ analysis_in = Idle
    /\ results = <<>> /\ atype = 0 /\ attempt = 0 /\ idx = 0 /\ report = None /\ hist = <<>>

CallMergeResponses ==
    /\ pc = "merge_responses"
    /\ merged' = merge_responses(responses)
    /\ pc' = "merge_responses_done"
    /\ UNCHANGED <<raw_data, data, max_items, chunks, responses, results, analysis,
                   analysis_in, atype, attempt, idx, report, hist>>

NextMerge == CallMergeResponses

SpecMerge == InitMerge /\ [][NextMerge]_vars

\* the values the responses give a key, in response order
ValsOf(rs, key) ==
    LET having == SelectSeq(rs, LAMBDA r : IsDict(r) /\ Has(r, key))
    IN  [i \in 1..Len(having) |-> Get(having[i], key)]

AllKeys(rs) == UNION {KeySet(rs[i]) : i \in {n \in 1..Len(rs) : IsDict(rs[n])}}

AllOf(vals, tag) == vals # <<>> /\ \A i \in 1..Len(vals) : vals[i].t = tag

IsBlank(s) == strip(s) = <<>>

\* the strings of a key as the merge leaves them: blank ones omitted, the first
\* kept one trimmed on both sides, every later one trimmed on the right only
RECURSIVE KeptParts(_, _)
KeptParts(vals, first) ==
    IF vals = <<>> THEN <<>>
    ELSE IF IsBlank(Head(vals).s) THEN KeptParts(Tail(vals), first)
    ELSE <<IF first THEN strip(Head(vals).s) ELSE rstrip(Head(vals).s)>>
         \o KeptParts(Tail(vals), FALSE)

ListsConcatenated(key) ==
    LET vals == ValsOf(responses, key)
    IN  AllOf(vals, "list") =>
          /\ Has(merged, key)
          /\ Get(merged, key) = List(Flatten([i \in 1..Len(vals) |-> vals[i].l]))

\* C7 (as amended): when merge_responses returns, a key that is a list in every
\* response that has it merges to the concatenation of those lists in response
\* order; a key that is a string in every response that has it merges to the
\* newline-join of those strings with the blank ones left out, the first kept
\* string trimmed on both sides and each later one trimmed on the right only
\* (the accumulated value is trimmed after every response, not once at the
\* end); the empty sequence merges to the empty mapping.
C7_MergeListsAndStrings ==
    (pc = "merge_responses_done" /\ ~IsRaise(merged)) =>
        /\ responses = <<>> => merged = Dict(<<>>)
        /\ \A key \in AllKeys(responses) :
              /\ ListsConcatenated(key)
              /\ LET vals == ValsOf(responses, key)
                 IN  AllOf(vals, "str") =>
                       /\ Has(merged, key)
                       /\ Get(merged, key) = Str(join(KeptParts(vals, TRUE)))

\* C7 witness: three responses were merged, a list key and a string key among them.
C7_Witness ==
    /\ pc = "merge_responses_done"
    /\ ~IsRaise(merged)
    /\ Len(responses) = 3
    /\ \E key \in AllKeys(responses) :
          /\ AllOf(ValsOf(responses, key), "list")
          /\ Len(ValsOf(responses, key)) = 3
          /\ Len(Get(merged, key).l) = 4
    /\ \E key \in AllKeys(responses) :
          /\ AllOf(ValsOf(responses, key), "str")
          /\ Len(ValsOf(responses, key)) >= 2
          /\ \E i \in 1..Len(Get(merged, key).s) : Get(merged, key).s[i] = NL

\* C7 as stated: a string key merges to its strings joined by a newline in
\* response order, the joined string trimmed.
C7_AsStated ==
    (pc = "merge_responses_done" /\ ~IsRaise(merged)) =>
        /\ responses = <<>> => merged = Dict(<<>>)
        /\ \A key \in AllKeys(responses) :
              /\ ListsConcatenated(key)
              /\ LET vals == ValsOf(responses, key)
                 IN  AllOf(vals, "str") =>
                       /\ Has(merged, key)
                       /\ Get(merged, key)
                            = Str(strip(join([i \in 1..Len(vals) |-> vals[i].s])))

\* the keys of a sequence of mappings, in order of first appearance
RECURSIVE FirstSeen(_, _)
FirstSeen(ks, seen) ==
    IF ks = <<>> THEN <<>>
    ELSE IF Head(ks) \in seen THEN FirstSeen(Tail(ks), seen)
    ELSE <<Head(ks)>> \o FirstSeen(Tail(ks), seen \cup {Head(ks)})

LastDefining(vals, inner) ==
    vals[CHOOSE i \in 1..Len(vals) :
            /\ Has(vals[i], inner)
            /\ \A n \in (i + 1)..Len(vals) : ~Has(vals[n], inner)]

\* C8 (as amended): when merge_responses returns, a key that is a mapping in
\* every response that has it merges one level deep, last wins: the merged
\* mapping has every key of every such mapping, in order of first appearance,
\* and each of its keys holds the whole value given by the last response whose
\* mapping defines it; a nested mapping is replaced, not merged recursively.
C8_MergeMappingsShallow ==
    (pc = "merge_responses_done" /\ ~IsRaise(merged)) =>
        \A key \in AllKeys(responses) :
            LET vals == ValsOf(responses, key)
            IN  AllOf(vals, "dict") =>
                  /\ Has(merged, key)
                  /\ IsDict(Get(merged, key))
                  /\ Keys(Get(merged, key))
                       = FirstSeen(Flatten([i \in 1..Len(vals) |-> Keys(vals[i])]), {})
                  /\ \A inner \in KeySet(Get(merged, key)) :
                        Get(Get(merged, key), inner)
                          = Get(LastDefining(vals, inner), inner)

\* C8 witness: a key was a mapping in two responses that both define the same
\* inner key with different nested mappings, and the later one stands.
C8_Witness ==
    /\ pc = "merge_responses_done"
    /\ ~IsRaise(merged)
    /\ \E key \in AllKeys(responses) :
          LET vals == ValsOf(responses, key)
          IN  /\ AllOf(vals, "dict")
              /\ Len(vals) >= 2
              /\ \E inner \in KeySet(Get(merged, key)) :
                    /\ IsDict(Get(Get(merged, key), inner))
                    /\ \E i \in 1..Len(vals) :
                          /\ Has(vals[i], inner)
                          /\ IsDict(Get(vals[i], inner))
                          /\ Get(vals[i], inner) # Get(Get(merged, key), inner)

\* the recursive merge the claim describes
RECURSIVE DeepUpdate(_, _)
DeepUpdate(cur, other) ==
    IF other.l = <<>> THEN cur
    ELSE LET e == Head(other.l)
             new == IF Has(cur, e.k) /\ IsDict(Get(cur, e.k)) /\ IsDict(e.v)
                    THEN DeepUpdate(Get(cur, e.k), e.v) ELSE e.v
         IN  DeepUpdate(Put(cur, e.k, new), Dict(Tail(other.l)))

RECURSIVE DeepMergeAll(_, _)
DeepMergeAll(cur, vals) ==
    IF vals = <<>> THEN cur ELSE DeepMergeAll(DeepUpdate(cur, Head(vals)), Tail(vals))

\* C8 as stated: mapping-valued keys are merged recursively, a later value
\* replacing an earlier one only at a leaf both define.
C8_AsStated ==
    (pc = "merge_responses_done" /\ ~IsRaise(merged)) =>
        \A key \in AllKeys(responses) :
            LET vals == ValsOf(responses, key)
            IN  AllOf(vals, "dict") =>
                  /\ Has(merged, key)
                  /\ Get(merged, key) = DeepMergeAll(Dict(<<>>), vals)

----------------------------------------------------------------------------
(* preprocess_data, extract_text, process_search_results                   *)
(* (src/analysis.py:41-54).                                                *)

\* Python truth value of a value
Truthy(x) ==
    CASE IsStr(x) -> x.s # <<>>
      [] IsNum(x) -> x.n # 0
      [] IsBool(x) -> x.n = 1
      [] IsNone(x) -> FALSE
      [] IsList(x) -> x.l # <<>>
      [] IsDict(x) -> x.l # <<>>

\* the first raised exception among the values of a sequence, or None
FirstRaise(xs) ==
    IF \E i \in 1..Len(xs) : IsRaise(xs[i])
    THEN xs[CHOOSE i \in 1..Len(xs) : IsRaise(xs[i]) /\ \A n \in 1..(i - 1) : ~IsRaise(xs[n])]
    ELSE None

\* the items a for loop or a comprehension draws from a value
iterate(x) ==
    CASE IsList(x) -> x.l
      [] IsStr(x) -> [i \in 1..Len(x.s) |-> Str(<<x.s[i]>>)]
      [] IsDict(x) -> [i \in 1..Len(x.l) |-> Str(x.l[i].k)]

\* a number, a bool and None cannot be iterated (TypeError)
Iterable(x) == IsList(x) \/ IsStr(x) \/ IsDict(x)

ColonSpace == <<":", " ">>

\* one article of the comprehension of line 49: a skipped article gives None
article_text(a) ==
    IF ~IsDict(a) THEN Raise("AttributeError")
    ELSE IF ~Truthy(GetOr(a, k_description, None)) THEN None
    ELSE IF ~Has(a, k_title) THEN Raise("KeyError")
    ELSE Str(str(Get(a, k_title)) \o ColonSpace \o str(Get(a, k_description)))

extract_text(articles) ==
    IF ~Iterable(articles) THEN Raise("TypeError")
    ELSE LET items == iterate(articles)
         IN  LET texts == [i \in 1..Len(items) |-> article_text(items[i])]
             IN  IF ~IsNone(FirstRaise(texts)) THEN FirstRaise(texts)
                 ELSE List(SelectSeq(texts, LAMBDA x : ~IsNone(x)))

OrganicLimit == 20

\* one result of the generator of lines 52-53
result_text(r) ==
    IF ~IsDict(r) THEN Raise("AttributeError")
    ELSE Str(str(GetOr(r, k_title, Str(<<>>))) \o ColonSpace
             \o str(GetOr(r, k_snippet, Str(<<>>))))

process_search_results(search) ==
    IF ~IsDict(search) THEN Raise("AttributeError")
    ELSE LET organic == GetOr(search, k_organic_results, List(<<>>))
         IN  IF ~(IsList(organic) \/ IsStr(organic)) THEN Raise("TypeError")
             ELSE LET items == Take(iterate(organic), OrganicLimit)
                      texts == [i \in 1..Len(items) |-> result_text(items[i])]
                  IN  IF ~IsNone(FirstRaise(texts)) THEN FirstRaise(texts)
                      ELSE Str(join([i \in 1..Len(texts) |-> texts[i].s]))

preprocess_data(raw) ==
    LET market_news == GetOr(raw, k_market_news, Dict(<<>>))
        news == IF ~IsDict(market_news) THEN Raise("AttributeError")
                ELSE extract_text(GetOr(market_news, k_articles, List(<<>>)))
        found == process_search_results(GetOr(raw, k_search_results, Dict(<<>>)))
    IN  IF IsRaise(news) THEN news
        ELSE IF IsRaise(found) THEN found
        ELSE Dict(<<KV(k_news, news), KV(k_search_results, found)>>)

----------------------------------------------------------------------------
(* Specification SpecPre: preprocess_data applied to bounded inputs.       *)

MaxArticles == 2     \* articles of a generated market_news: 0..MaxArticles
MaxResults == 2      \* organic results of a generated search_results
LongResults == 21    \* length of the one long organic_results list offered

sT == Str(<<"T">>)
sD == Str(<<"d">>)

Articles ==
    { Dict(<<KV(k_title, sT), KV(k_description, sD)>>),
      Dict(<<KV(k_title, sT)>>),
      Dict(<<KV(k_description, sD)>>),
      Dict(<<KV(k_title, sA), KV(k_description, Str(<<>>))>>),
      Dict(<<KV(k_title, sB), KV(k_description, None)>>) }

Results ==
    { Dict(<<KV(k_title, sT), KV(k_snippet, sD)>>),
      Dict(<<KV(k_title, sT)>>),
      Dict(<<KV(k_snippet, sD)>>),
      Dict(<<>>) }

MarketNews ==
    { Dict(<<>>) }
    \cup { Dict(<<KV(k_articles, List(a))>>) : a \in SeqsUpTo(Articles, MaxArticles) }

SearchResults ==
    { Dict(<<>>) }
    \cup { Dict(<<KV(k_organic_results, List(r))>>) : r \in SeqsUpTo(Results, MaxResults) }
    \cup { Dict(<<KV(k_organic_results,
                     List([i \in 1..LongResults |->
                             Dict(<<KV(k_title, Str(<<LowerLetters[i]>>)),
                                    KV(k_snippet, sD)>>)]))>>) }

RawData ==
    { Dict(<<>>) }
    \cup { Dict(<<KV(k_market_news, m)>>) : m \in MarketNews }
    \cup { Dict(<<KV(k_search_results, r)>>) : r \in SearchResults }
    \cup { Dict(<<KV(k_market_news, m), KV(k_search_results, r)>>) :
              m \in MarketNews, r \in SearchResults }

InitPre ==
    /\ pc = "preprocess_data"
    /\ raw_data \in RawData
    /\ data = Idle
    /\ max_items = DefaultMaxItems /\ chunks = <<>> /\ responses = <<>> /\ merged = Idle
    /\ analysis = Idle /\ analysis_in = Idle
    /\ results = <<>> /\ atype = 0 /\ attempt = 0 /\ idx = 0 /\ report = None /\ hist = <<>>

CallPreprocessData ==
    /\ pc = "preprocess_data"
    /\ data' = preprocess_data(raw_data)
    /\ pc' = "preprocess_data_done"
    /\ UNCHANGED <<raw_data, max_items, chunks, responses, merged, results, analysis,
                   analysis_in, atype, attempt, idx, report, hist>>

NextPre == CallPreprocessData

SpecPre == InitPre /\ [][NextPre]_vars

ArticlesOf(raw) == GetOr(GetOr(raw, k_market_news, Dict(<<>>)), k_articles, List(<<>>)).l
ResultsOf(raw) ==
    GetOr(GetOr(raw, k_search_results, Dict(<<>>)), k_organic_results, List(<<>>)).l

\* C10: preprocess_data never raises for a RawMarketData whose substructures
\* are missing, empty or partial: the missing parts default to an empty news
\* list and an empty search-results string, and the articles without a
\* description are dropped.
C10_NeverRaises ==
    pc = "preprocess_data_done" =>
        /\ ~IsRaise(data)
        /\ IsList(Get(data, k_news))
        /\ IsStr(Get(data, k_search_results))
        /\ ArticlesOf(raw_data) = <<>> => Get(data, k_news) = List(<<>>)
        /\ ResultsOf(raw_data) = <<>> => Get(data, k_search_results) = Str(<<>>)
        /\ Len(Get(data, k_news).l)
             = Cardinality({i \in 1..Len(ArticlesOf(raw_data)) :
                               Truthy(GetOr(ArticlesOf(raw_data)[i], k_description, None))})

----------------------------------------------------------------------------
(* postprocess_analysis and its stages (src/analysis.py:179-291).          *)

\* a process_value that capitalizes the first letter and keeps the other cases
RECURSIVE process_value_keep_case(_)
process_value_keep_case(value) ==
    CASE IsStr(value) -> Str(upper_first(strip(value.s)))
      [] IsDict(value) ->
           Dict([i \in 1..Len(value.l) |->
                    KV(value.l[i].k, process_value_keep_case(value.l[i].v))])
      [] IsList(value) -> List([i \in 1..Len(value.l) |-> process_value_keep_case(value.l[i])])
      [] OTHER -> value

\* normalize_texts.process_value, lines 189-196
RECURSIVE process_value(_)
process_value(value) ==
    CASE IsStr(value) -> Str(capitalize(strip(value.s)))
      [] IsDict(value) ->
           Dict([i \in 1..Len(value.l) |-> KV(value.l[i].k, process_value(value.l[i].v))])
      [] IsList(value) -> List([i \in 1..Len(value.l) |-> process_value(value.l[i])])
      [] OTHER -> value

text_fields == <<k_trends, k_competitive_landscape, k_summary>>

RECURSIVE normalize_fields(_, _)
normalize_fields(a, fields) ==
    IF fields = <<>> THEN a
    ELSE normalize_fields(IF Has(a, Head(fields))
                          THEN Put(a, Head(fields), process_value(Get(a, Head(fields))))
                          ELSE a,
                          Tail(fields))

normalize_texts(a) == normalize_fields(a, text_fields)

\* a value as it compares and hashes inside a tuple: True is 1, False is 0
AsHashed(x) == IF IsBool(x) THEN Num(x.n) ELSE x

\* remove_duplicates.create_hash, lines 205-208.  Hashes are modelled as the
\* hashed content (two items share a hash exactly when their contents are
\* equal); a list or a mapping among a mapping's values is unhashable.
create_hash(item) ==
    IF IsDict(item)
    THEN IF \E i \in 1..Len(item.l) : IsList(item.l[i].v) \/ IsDict(item.l[i].v)
         THEN Raise("TypeError")
         ELSE [t |-> "frozenset", s |-> <<>>,
               fs |-> {<<item.l[i].k, AsHashed(item.l[i].v)>> : i \in 1..Len(item.l)}]
    ELSE [t |-> "strhash", s |-> str(item), fs |-> {}]

\* the loop of lines 214-218: the unique items, or the exception raised
RECURSIVE unique_loop(_, _, _)
unique_loop(items, seen, unique_list) ==
    IF items = <<>> THEN List(unique_list)
    ELSE LET item_hash == create_hash(Head(items))
         IN  IF IsRaise(item_hash) THEN item_hash
             ELSE IF item_hash \in seen THEN unique_loop(Tail(items), seen, unique_list)
             ELSE unique_loop(Tail(items), seen \cup {item_hash},
                              Append(unique_list, Head(items)))

dedup_keys == <<k_trends, k_strengths, k_weaknesses>>

RECURSIVE dedup_fields(_, _)
dedup_fields(a, fields) ==
    IF IsRaise(a) \/ fields = <<>> THEN a
    ELSE IF ~Has(a, Head(fields)) THEN dedup_fields(a, Tail(fields))
    ELSE LET value == Get(a, Head(fields))
             unique == IF Iterable(value) THEN unique_loop(iterate(value), {}, <<>>)
                       ELSE Raise("TypeError")
         IN  IF IsRaise(unique) THEN unique
             ELSE dedup_fields(Put(a, Head(fields), unique), Tail(fields))

remove_duplicates(a) == dedup_fields(a, dedup_keys)

\* validate_data_structure, lines 222-232: None, or the exception raised
\* (the warnings it prints are not modelled)
validate_data_structure(a) ==
    IF ~Has(a, k_competitors) THEN None
    ELSE IF ~IsDict(Get(a, k_competitors)) THEN Raise("AttributeError")
    ELSE LET top == GetOr(Get(a, k_competitors), k_top_competitors, List(<<>>))
         IN  IF ~Iterable(top) THEN Raise("TypeError")
             ELSE IF \E i \in 1..Len(iterate(top)) : ~IsDict(iterate(top)[i])
             THEN Raise("AttributeError")
             ELSE None

\* float(val) of safe_get for strings: the decimal digits, surrounding
\* whitespace allowed; -1 stands for a ValueError
DigitValue(c) == (CHOOSE i \in 1..10 : DigitChars[i] = c) - 1
RECURSIVE DigitsValue(_, _)
DigitsValue(s, acc) ==
    IF s = <<>> THEN acc ELSE DigitsValue(Tail(s), 10 * acc + DigitValue(Head(s)))
IsDigits(s) == s # <<>> /\ \A i \in 1..Len(s) : \E d \in 1..10 : DigitChars[d] = s[i]

\* strategic_sorting.safe_get(value, 'impact_score'), lines 235-245
safe_get(value, key) ==
    LET val == IF IsDict(value) THEN GetOr(value, key, Num(0)) ELSE Num(0)
    IN  CASE IsNum(val) -> val.n
          [] IsBool(val) -> val.n
          [] IsStr(val) -> IF IsDigits(strip(val.s)) THEN DigitsValue(strip(val.s), 0) ELSE 0
          [] OTHER -> 0

\* list.sort(key=..., reverse=True): descending, equal keys in original order
RECURSIVE insert_desc(_, _)
insert_desc(sorted, x) ==
    IF sorted = <<>> THEN <<x>>
    ELSE IF safe_get(Head(sorted), k_impact_score) >= safe_get(x, k_impact_score)
    THEN <<Head(sorted)>> \o insert_desc(Tail(sorted), x)
    ELSE <<x>> \o sorted

RECURSIVE sort_desc(_, _)
sort_desc(items, sorted) ==
    IF items = <<>> THEN sorted ELSE sort_desc(Tail(items), insert_desc(sorted, Head(items)))

\* strategic_sorting, lines 247-257
strategic_sorting(a) ==
    IF ~Has(a, k_trends) THEN a
    ELSE IF ~Iterable(Get(a, k_trends)) THEN Raise("TypeError")
    ELSE LET items == iterate(Get(a, k_trends))
             IsValid(t) == IsDict(t) /\ Has(t, k_impact_score)
             valid_trends == sort_desc(SelectSeq(items, IsValid), <<>>)
             invalid_trends == SelectSeq(items, LAMBDA t : ~IsValid(t))
         IN  Put(a, k_trends, List(valid_trends \o invalid_trends))

\* len(x): a number, a bool and None have no len()
HasLen(x) == IsList(x) \/ IsStr(x) \/ IsDict(x)
PyLen(x) == IF IsStr(x) THEN Len(x.s) ELSE Len(x.l)

\* validate_analysis_quality, lines 259-276: None, or the exception raised
validate_analysis_quality(a) ==
    LET comp == GetOr(a, k_competitors, Dict(<<>>))
        sw == GetOr(a, k_swot, Dict(<<>>))
    IN  IF ~IsDict(comp) THEN Raise("AttributeError")
        ELSE IF ~HasLen(GetOr(comp, k_top_competitors, List(<<>>))) THEN Raise("TypeError")
        ELSE IF ~HasLen(GetOr(a, k_trends, List(<<>>))) THEN Raise("TypeError")
        ELSE IF ~IsDict(sw) THEN Raise("AttributeError")
        ELSE IF ~IsDict(GetOr(sw, k_weaknesses, Dict(<<>>))) THEN Raise("AttributeError")
        ELSE IF ~HasLen(GetOr(GetOr(sw, k_weaknesses, Dict(<<>>)), k_evidence, List(<<>>)))
        THEN Raise("TypeError")
        ELSE None

\* calculate_quality_score, lines 287-291, in tenths:
\* min(0.3 + min(trend_count * 0.1, 0.3), 1.0)
calculate_quality_score(a) ==
    LET trends == GetOr(a, k_trends, List(<<>>))
    IN  IF ~HasLen(trends) THEN Raise("TypeError")
        ELSE Val("tenths", <<>>, Min(3 + Min(PyLen(trends), 3), 10), <<>>)

s_web_search == Str(<<"w", "e", "b", "_", "s", "e", "a", "r", "c", "h">>)
s_model == Str(<<"g", "p", "t", "-", "4", "-", "1", "1", "0", "6", "-",
                 "p", "r", "e", "v", "i", "e", "w">>)

\* add_metadata, lines 278-285; now is datetime.now(timezone.utc).isoformat()
add_metadata(a, now) ==
    LET score == calculate_quality_score(a)
    IN  IF IsRaise(score) THEN score
        ELSE Put(a, k_metadata,
                 Dict(<<KV(k_processing_date, now),
                        KV(k_data_sources, List(<<s_web_search>>)),
                        KV(k_model_version, s_model),
                        KV(k_quality_score, score)>>))

----------------------------------------------------------------------------
(* The stages of postprocess_analysis as steps (lines 180-186); a stage     *)
(* that raises ends the call.                                              *)

PostStages == <<"normalize_texts", "remove_duplicates", "validate_data_structure",
                "strategic_sorting", "validate_analysis_quality", "add_metadata">>

\* what the clock may read when add_metadata runs
Timestamps == { Str(<<"t", "1">>), Str(<<"t", "2">>) }

StageDone(stage, next, result) ==
    /\ pc = stage
    /\ IF IsRaise(result)
       THEN /\ pc' = "raised"
            /\ analysis' = result
            /\ hist' = [hist EXCEPT !.raised_in = stage]
       ELSE /\ pc' = next
            /\ analysis' = IF IsNone(result) THEN analysis ELSE result
            /\ hist' = [hist EXCEPT !.stages = Append(@, stage)]
    /\ UNCHANGED <<raw_data, data, max_items, chunks, responses, merged, results,
                   analysis_in, atype, attempt, idx, report>>

NormalizeTexts == StageDone("normalize_texts", "remove_duplicates", normalize_texts(analysis))

RemoveDuplicates ==
    StageDone("remove_duplicates", "validate_data_structure", remove_duplicates(analysis))

ValidateDataStructure ==
    StageDone("validate_data_structure", "strategic_sorting",
              validate_data_structure(analysis))

StrategicSorting ==
    StageDone("strategic_sorting", "validate_analysis_quality", strategic_sorting(analysis))

ValidateAnalysisQuality ==
    StageDone("validate_analysis_quality", "add_metadata",
              validate_analysis_quality(analysis))

AddMetadata ==
    \E now \in Timestamps :
        StageDone("add_metadata", "postprocess_done", add_metadata(analysis, now))

Postprocess ==
    \/ NormalizeTexts
    \/ RemoveDuplicates
    \/ ValidateDataStructure
    \/ StrategicSorting
    \/ ValidateAnalysisQuality
    \/ AddMetadata

\* stages: the postprocess stages that completed; raised_in: the stage that
\* raised; llm_ok: every LLM call so far returned a JSON object of its schema;
\* completed: the analysis types whose structured_analysis call returned;
\* last_error: the error of the last failed attempt; generator_called: main
\* called create_report; analysis_raised: analyze_trends raised
NoHist ==
    [stages |-> <<>>, raised_in |-> "", llm_ok |-> TRUE, completed |-> <<>>,
     last_error |-> "", generator_called |-> FALSE, analysis_raised |-> FALSE,
     log |-> <<>>, discarded |-> 0]

----------------------------------------------------------------------------
(* Specification SpecPost: postprocess_analysis applied to bounded         *)
(* JSON-compatible analysis objects {trends, competitors, swot}.           *)

k_note == <<"n", "o", "t", "e">>
s_mixed == Str(<<" ", "e", "V", " ", "m", "a", "r", "k", "e", "t", " ">>)
s_plain == Str(<<"G", "r", "o", "w", "t", "h">>)
s_nine == Str(<<"9">>)

Entry(name, score) == Dict(<<KV(k_name, name), KV(k_impact_score, score)>>)
EntryWithEvidence(name, score) ==
    Dict(<<KV(k_name, name), KV(k_description, s_mixed),
           KV(k_evidence, List(<<s_plain>>)), KV(k_impact_score, score)>>)

PostTrends ==
    { \* the merged trend response, as analyze_trends stores it
      Dict(<<KV(k_trends, List(<<EntryWithEvidence(sA, Num(2)),
                                 EntryWithEvidence(sB, Num(9))>>)),
             KV(k_summary, s_mixed)>>),
      \* lists of entries
      List(<<Entry(sA, Num(2)), Entry(sB, Num(9)), Dict(<<KV(k_note, s_mixed)>>)>>),
      List(<<Entry(sA, Num(2)), Entry(sA, Num(2)), Entry(sB, s_nine),
             Entry(s_mixed, None), Entry(sA, Bool(TRUE))>>),
      List(<<EntryWithEvidence(sA, Num(2))>>),
      List(<<sA, Str(<<"a", " ">>), Num(7), Str(<<"7">>), sB, None>>),
      List(<<>>),
      \* other JSON values
      s_mixed, Num(3), None }

Competitor(name, share) == Dict(<<KV(k_name, name), KV(k_market_share, share)>>)

PostCompetitors ==
    { Dict(<<KV(k_top_competitors, List(<<Competitor(sA, Num(3)), Competitor(sB, s_nine),
                                          Dict(<<KV(k_name, sT)>>)>>)),
             KV(k_competitive_landscape, s_mixed)>>),
      Dict(<<>>),
      Dict(<<KV(k_top_competitors, None)>>),
      Dict(<<KV(k_top_competitors, List(<<sA>>))>>),
      List(<<>>) }

Category(n) ==
    Dict(<<KV(k_description, s_mixed), KV(k_evidence, List([i \in 1..n |-> sA]))>>)

PostSwot ==
    { Dict(<<KV(k_strengths, Category(1)), KV(k_weaknesses, Category(6)),
             KV(k_opportunities, Category(0)), KV(k_threats, Category(1))>>),
      Dict(<<>>),
      Dict(<<KV(k_weaknesses, s_mixed)>>),
      Dict(<<KV(k_weaknesses, Dict(<<KV(k_evidence, Num(2))>>))>>),
      None }

\* top-level fields beside the three of analyze_trends
PostExtras ==
    { <<>>,
      <<KV(k_summary, s_mixed), KV(k_competitive_landscape, List(<<s_mixed, Num(1)>>))>>,
      <<KV(k_strengths, List(<<sA, sA, sB>>)), KV(k_note, s_mixed)>> }

PostInputs ==
    { Dict(<<KV(k_trends, tr), KV(k_competitors, co), KV(k_swot, sw)>> \o ex) :
         tr \in PostTrends, co \in PostCompetitors, sw \in PostSwot, ex \in PostExtras }

InitPost ==
    /\ pc = "normalize_texts"
    /\ analysis \in PostInputs
    /\ analysis_in = analysis
    /\ raw_data = Idle /\ data = Idle /\ max_items = DefaultMaxItems
    /\ chunks = <<>> /\ responses = <<>> /\ merged = Idle
    /\ results = <<>> /\ atype = 0 /\ attempt = 0 /\ idx = 0 /\ report = None /\ hist = NoHist

NextPost == Postprocess

SpecPost == InitPost /\ [][NextPost]_vars

\* C4: every stage of postprocess_analysis, and so postprocess_analysis as a
\* whole, completes without raising for every JSON-compatible analysis
\* object {trends, competitors, swot}.
C4_PostprocessTotal == pc # "raised"

\* the claimed normalization: trimmed, first letter upper-cased, rest unchanged
TrimUpperFirst(value) == process_value_keep_case(value)

\* C9: normalize_texts replaces every string reachable from trends,
\* competitive_landscape and summary by that string trimmed with its first
\* letter upper-cased and the casing of all other characters unchanged;
\* non-string leaves and all other top-level fields are unchanged.
C9_NormalizeKeepsCase ==
    (Len(hist.stages) >= 1 /\ hist.stages[1] = "normalize_texts"
        /\ pc = "remove_duplicates") =>
        /\ Keys(analysis) = Keys(analysis_in)
        /\ \A i \in 1..Len(analysis.l) :
              analysis.l[i].v
                = IF analysis.l[i].k \in {k_trends, k_competitive_landscape, k_summary}
                  THEN TrimUpperFirst(analysis_in.l[i].v)
                  ELSE analysis_in.l[i].v

----------------------------------------------------------------------------
(* Specification Spec: app.main (src/app.py:17-45) running analyze_trends   *)
(* (src/analysis.py:26-39) with structured_analysis under its retry        *)
(* decorator (lines 63-80).  The LLM is the environment: each call fails,  *)
(* returns text that is no JSON, or returns a JSON value.                  *)

MaxAttempts == 3

\* the analysis types in the order analyze_trends runs them (lines 30-36)
Types == <<k_trends, k_competitors, k_swot>>

s_alpha == Str(<<"a", "l", "p", "h", "a">>)
s_beta == Str(<<"B", "e", "t", "a", " ", "C", "o", "r", "p">>)

TrendEntry(name, score) ==
    Dict(<<KV(k_name, name), KV(k_description, s_mixed),
           KV(k_evidence, List(<<s_plain>>)), KV(k_impact_score, Num(score))>>)

TrendReply(entries, summary) ==
    Dict(<<KV(k_trends, List(entries)), KV(k_summary, summary)>>)

CompetitorEntry(name, share) ==
    Dict(<<KV(k_name, name), KV(k_market_share, Num(share)),
           KV(k_strengths, List(<<s_plain>>)), KV(k_weaknesses, List(<<>>)),
           KV(k_recent_activity, List(<<s_mixed>>))>>)

CompetitorReply(entries, landscape) ==
    Dict(<<KV(k_top_competitors, List(entries)), KV(k_competitive_landscape, landscape)>>)

SwotReply(n) ==
    Dict(<<KV(k_strengths, Category(n)), KV(k_weaknesses, Category(n + 1)),
           KV(k_opportunities, Category(0)), KV(k_threats, Category(1))>>)

\* the JSON objects of each type's schema that the LLM may return
Conforming(type) ==
    CASE type = 1 -> { TrendReply(<<TrendEntry(s_alpha, 2), TrendEntry(s_beta, 9)>>, s_mixed),
                       TrendReply(<<TrendEntry(s_plain, 5)>>, s_plain) }
      [] type = 2 -> { CompetitorReply(<<CompetitorEntry(s_alpha, 30)>>, s_mixed),
                       CompetitorReply(<<CompetitorEntry(s_beta, 12),
                                         CompetitorEntry(s_plain, 7)>>, s_plain) }
      [] type = 3 -> { SwotReply(1), SwotReply(5) }

\* JSON values outside the schema that the LLM may also return: a JSON array,
\* an object whose top_competitors is a string
NonConforming(type) ==
    CASE type = 1 -> { List(<<>>) }
      [] type = 2 -> { Dict(<<KV(k_top_competitors, s_plain)>>) }
      [] type = 3 -> { List(<<>>) }

Replies(type) == Conforming(type) \cup NonConforming(type)

\* the errors a chat.completions.create call or json.loads may raise
CallErrors == { "APIError", "JSONDecodeError" }

FiveArticles ==
    List([i \in 1..5 |-> Dict(<<KV(k_title, Str(<<LowerLetters[i]>>)),
                                KV(k_description, sD)>>)])

\* the market data research_market may return
MarketData ==
    { Dict(<<>>),
      Dict(<<KV(k_market_news, Dict(<<KV(k_articles, FiveArticles)>>)),
             KV(k_search_results,
                Dict(<<KV(k_organic_results,
                          List(<<Dict(<<KV(k_title, sT), KV(k_snippet, sD)>>),
                                 Dict(<<KV(k_title, sA)>>)>>))>>))>>),
      Dict(<<KV(k_market_news,
                Dict(<<KV(k_articles, List(<<Dict(<<KV(k_description, sD)>>)>>))>>))>>) }

Init ==
    /\ pc = "main"
    /\ raw_data = Idle /\ data = Idle /\ max_items = DefaultMaxItems
    /\ chunks = <<>> /\ responses = <<>> /\ merged = Idle /\ results = <<>>
    /\ analysis = Idle /\ analysis_in = Idle
    /\ atype = 0 /\ attempt = 0 /\ idx = 0 /\ report = None /\ hist = NoHist

\* main, lines 21-27: parse_query and research_market return the market data
CollectData ==
    /\ pc = "main"
    /\ raw_data' \in MarketData
    /\ pc' = "analyze_trends"
    /\ UNCHANGED <<data, max_items, chunks, responses, merged, results, analysis,
                   analysis_in, atype, attempt, idx, report, hist>>

\* main, lines 21-27: parse_query or research_market raises
CollectFails ==
    /\ pc = "main"
    /\ pc' = "except"
    /\ UNCHANGED <<raw_data, data, max_items, chunks, responses, merged, results,
                   analysis, analysis_in, atype, attempt, idx, report, hist>>

\* a response parsed from the reply to chunk i during attempt a of the
\* current call (line 78), as kept in the history of the run
Parsed(a, i, reply) == [a |-> a, i |-> i, r |-> reply]

ParsedIn(log, a) == SelectSeq(log, LAMBDA e : e.a = a)

\* the responses list of a failed attempt is dropped with its frame; the
\* history keeps how many responses the failed attempts of the call parsed
Discard(h, a) ==
    [h EXCEPT !.discarded = (IF a = 1 THEN 0 ELSE @) + Len(h.log), !.log = <<>>]

\* an attempt that goes on with the responses list of the failed attempt
BeginAttempt_keep_responses(type, n, d) ==
    /\ atype' = type
    /\ attempt' = n
    /\ chunks' = chunk_data(d, DefaultMaxItems)
    /\ responses' = IF n = 1 THEN <<>> ELSE responses
    /\ idx' = 1
    /\ pc' = IF chunk_data(d, DefaultMaxItems) = <<>> THEN "merge" ELSE "llm_call"

\* the start of an attempt of structured_analysis, lines 65-66
BeginAttempt(type, n, d) ==
    /\ atype' = type
    /\ attempt' = n
    /\ chunks' = chunk_data(d, DefaultMaxItems)
    /\ responses' = <<>>
    /\ idx' = 1
    /\ pc' = IF chunk_data(d, DefaultMaxItems) = <<>> THEN "merge" ELSE "llm_call"

\* analyze_trends, line 27, and the call of the first analysis type
Preprocess ==
    /\ pc = "analyze_trends"
    /\ data' = preprocess_data(raw_data)
    /\ IF IsRaise(preprocess_data(raw_data))
       THEN /\ pc' = "except"
            /\ hist' = [hist EXCEPT !.analysis_raised = TRUE]
            /\ UNCHANGED <<atype, attempt, chunks, responses, idx>>
       ELSE /\ BeginAttempt(1, 1, preprocess_data(raw_data))
            /\ UNCHANGED hist
    /\ UNCHANGED <<raw_data, max_items, merged, results, analysis, analysis_in, report>>

\* lines 69-78: the call for chunk idx returns a JSON value, which is appended
LLMReplies ==
    /\ pc = "llm_call"
    /\ \E reply \in Replies(atype) :
          /\ responses' = Append(responses, reply)
          /\ hist' = [hist EXCEPT !.llm_ok = @ /\ reply \in Conforming(atype),
                                  !.log = Append(@, Parsed(attempt, idx, reply))]
    /\ idx' = idx + 1
    /\ pc' = IF idx + 1 > Len(chunks) THEN "merge" ELSE "llm_call"
    /\ UNCHANGED <<raw_data, data, max_items, chunks, merged, results, analysis,
                   analysis_in, atype, attempt, report>>

\* lines 69-78: the call for chunk idx raises, or its reply is no JSON
LLMFails ==
    /\ pc = "llm_call"
    /\ \E e \in CallErrors :
          hist' = [hist EXCEPT !.llm_ok = FALSE, !.last_error = e]
    /\ pc' = "attempt_failed"
    /\ UNCHANGED <<raw_data, data, max_items, chunks, responses, merged, results,
                   analysis, analysis_in, atype, attempt, idx, report>>

\* analyze_trends, lines 29-39: the three results are assembled
Assemble(rs) == Dict([i \in 1..3 |-> KV(Types[i], rs[i])])

\* line 80: the responses are merged and the call returns; the next analysis
\* type is called, or the analysis is assembled and postprocessing starts
MergeAndReturn ==
    /\ pc = "merge"
    /\ merged' = merge_responses(responses)
    /\ IF IsRaise(merge_responses(responses))
       THEN /\ pc' = "attempt_failed"
            /\ hist' = [hist EXCEPT !.last_error = "AttributeError"]
            /\ UNCHANGED <<results, analysis, analysis_in, atype, attempt, chunks,
                           responses, idx>>
       ELSE /\ results' = Append(results, merge_responses(responses))
            /\ hist' = [hist EXCEPT !.completed = Append(@, atype),
                                    !.discarded = IF attempt = 1 THEN 0 ELSE @,
                                    !.log = <<>>]
            /\ IF atype < 3
               THEN /\ BeginAttempt(atype + 1, 1, data)
                    /\ UNCHANGED <<analysis, analysis_in>>
               ELSE /\ analysis' = Assemble(results')
                    /\ analysis_in' = analysis'
                    /\ pc' = "normalize_texts"
                    /\ UNCHANGED <<atype, attempt, chunks, responses, idx>>
    /\ UNCHANGED <<raw_data, data, max_items, report>>

\* a retry policy that grants one attempt more
RetryOrRaiseOneMore ==
    /\ pc = "attempt_failed"
    /\ IF attempt < MaxAttempts + 1
       THEN /\ BeginAttempt(atype, attempt + 1, data)
            /\ hist' = Discard(hist, attempt)
       ELSE /\ pc' = "except"
            /\ hist' = [hist EXCEPT !.analysis_raised = TRUE, !.log = <<>>]
            /\ UNCHANGED <<atype, attempt, chunks, responses, idx>>
    /\ UNCHANGED <<raw_data, data, max_items, merged, results, analysis,
                   analysis_in, report>>

\* a retry policy that, out of attempts, returns an empty result
RetryOrFallBack ==
    /\ pc = "attempt_failed"
    /\ IF attempt < MaxAttempts
       THEN /\ BeginAttempt(atype, attempt + 1, data)
            /\ hist' = Discard(hist, attempt)
            /\ UNCHANGED <<results, analysis, analysis_in>>
       ELSE /\ results' = Append(results, Dict(<<>>))
            /\ hist' = [hist EXCEPT !.log = <<>>]
            /\ IF atype < 3
               THEN /\ BeginAttempt(atype + 1, 1, data)
                    /\ UNCHANGED <<analysis, analysis_in>>
               ELSE /\ analysis' = Assemble(results')
                    /\ analysis_in' = analysis'
                    /\ pc' = "normalize_texts"
                    /\ UNCHANGED <<atype, attempt, chunks, responses, idx>>
    /\ UNCHANGED <<raw_data, data, max_items, merged, report>>

\* the retry decorator, line 63: after a failed attempt the body is run again
\* (after the backoff wait), or, the third attempt having failed, the call
\* raises RetryError, which analyze_trends lets through to main
RetryOrRaise ==
    /\ pc = "attempt_failed"
    /\ IF attempt < MaxAttempts
       THEN /\ BeginAttempt(atype, attempt + 1, data)
            /\ hist' = Discard(hist, attempt)
       ELSE /\ pc' = "except"
            /\ hist' = [hist EXCEPT !.analysis_raised = TRUE, !.log = <<>>]
            /\ UNCHANGED <<atype, attempt, chunks, responses, idx>>
    /\ UNCHANGED <<raw_data, data, max_items, merged, results, analysis,
                   analysis_in, report>>

\* a postprocess stage raised: analyze_trends raises into main
PostprocessRaises ==
    /\ pc = "raised"
    /\ pc' = "except"
    /\ hist' = [hist EXCEPT !.analysis_raised = TRUE]
    /\ UNCHANGED <<raw_data, data, max_items, chunks, responses, merged, results,
                   analysis, analysis_in, atype, attempt, idx, report>>

ReportText == Str(<<"#">>)

\* main, lines 33-37: analyze_trends returned; create_report returns or raises
CreateReport ==
    /\ pc = "postprocess_done"
    /\ hist' = [hist EXCEPT !.generator_called = TRUE]
    /\ \/ report' = ReportText /\ pc' = "end"
       \/ report' = report /\ pc' = "except"
    /\ UNCHANGED <<raw_data, data, max_items, chunks, responses, merged, results,
                   analysis, analysis_in, atype, attempt, idx>>

\* main, lines 39-45: the except clause shows the error; report stays None
HandleException ==
    /\ pc = "except"
    /\ pc' = "end"
    /\ UNCHANGED <<raw_data, data, max_items, chunks, responses, merged, results,
                   analysis, analysis_in, atype, attempt, idx, report, hist>>

Next ==
    \/ CollectData
    \/ CollectFails
    \/ Preprocess
    \/ LLMReplies
    \/ LLMFails
    \/ MergeAndReturn
    \/ RetryOrRaise
    \/ Postprocess
    \/ PostprocessRaises
    \/ CreateReport
    \/ HandleException

Spec == Init /\ [][Next]_vars

InCall == pc \in {"llm_call", "merge", "attempt_failed"}

\* C1: the body of structured_analysis is attempted at most 3 times per call;
\* a further attempt starts only after the previous attempt raised; if all 3
\* attempts raise, the call raises to its caller and returns no result.
C1_RetryPolicy ==
    /\ [](attempt \in 0..3)
    /\ [][ /\ (InCall /\ atype' = atype /\ attempt' # attempt) =>
                /\ pc = "attempt_failed"
                /\ attempt' = attempt + 1
                /\ pc' \in {"llm_call", "merge"}
           /\ (pc = "attempt_failed" /\ attempt = 3) =>
                /\ pc' = "except"
                /\ results' = results
                /\ analysis' = analysis
                /\ hist'.analysis_raised
                /\ hist'.completed = hist.completed
           /\ (pc = "attempt_failed" /\ attempt < 3) =>
                /\ attempt' = attempt + 1
                /\ atype' = atype
         ]_vars

\* C1 witness: the third attempt of a call failed and the call raised into main.
C1_Witness ==
    /\ pc = "except"
    /\ attempt = 3
    /\ hist.last_error # ""
    /\ hist.analysis_raised
    /\ Len(results) < atype

Postprocessing ==
    pc \in {"normalize_texts", "remove_duplicates", "validate_data_structure",
            "strategic_sorting", "validate_analysis_quality", "add_metadata",
            "postprocess_done", "raised"}

\* C2: analyze_trends returns a final analysis only when all three analysis
\* types completed, and raises otherwise; the postprocessor runs only after
\* all three types have succeeded; main never calls the report generator for
\* a run in which the analysis raised.
C2_AllOrNothing ==
    /\ (Postprocessing \/ hist.stages # <<>>) =>
          /\ hist.completed = <<1, 2, 3>>
          /\ Len(results) = 3
          /\ \A i \in 1..3 : IsDict(results[i])
          /\ Keys(analysis_in) = Types
          /\ \A i \in 1..3 : Get(analysis_in, Types[i]) = results[i]
    /\ (pc = "postprocess_done" \/ hist.generator_called) =>
          /\ hist.completed = <<1, 2, 3>>
          /\ Len(hist.stages) = 6
          /\ \A i \in 1..3 : Has(analysis, Types[i])
          /\ ~hist.analysis_raised
    /\ hist.analysis_raised => (~hist.generator_called /\ report = None)
    /\ (pc = "end" /\ Len(hist.completed) < 3) => (hist.stages = <<>> /\ report = None)

\* C2 witness: one analysis type had completed when a later one ran out of
\* attempts; the run ended without a report.
C2_Witness ==
    /\ pc = "end"
    /\ hist.analysis_raised
    /\ Len(results) >= 1
    /\ Len(results) < 3
    /\ attempt = 3
    /\ report = None

Score(entry) == Get(entry, k_impact_score).n

\* C3: in a run in which every LLM call returns a JSON object of its type's
\* schema, the trends field of the final analysis is a list of the trend-entry
\* mappings the LLM returned, ordered by non-increasing impact_score.
C3_TrendsSorted ==
    (pc = "postprocess_done" /\ hist.llm_ok) =>
        LET trends == Get(analysis, k_trends)
            entries == Get(results[1], k_trends).l
        IN  /\ IsList(trends)
            /\ \A i \in 1..Len(trends.l) :
                  /\ IsDict(trends.l[i])
                  /\ \E j \in 1..Len(entries) : trends.l[i] = process_value(entries[j])
            /\ \A i \in 1..Len(entries) :
                  \E j \in 1..Len(trends.l) : trends.l[j] = process_value(entries[i])
            /\ \A i \in 1..(Len(trends.l) - 1) :
                  Score(trends.l[i]) >= Score(trends.l[i + 1])


\* C11: when an attempt of structured_analysis succeeds, the value returned is
\* the merge of exactly the responses parsed during that attempt, one per chunk
\* in chunk order; an attempt restarts from the first chunk, and no response
\* parsed during a failed attempt is part of the result.
C11_OnlySuccessfulAttempt ==
    [][ /\ (pc = "merge" /\ Len(results') = Len(results) + 1) =>
             LET mine == ParsedIn(hist.log, attempt)
             IN  /\ mine = hist.log
                 /\ Len(mine) = Len(chunks)
                 /\ \A i \in 1..Len(mine) : mine[i].i = i
                 /\ results'[Len(results')] =
                        merge_responses([i \in 1..Len(mine) |-> mine[i].r])
        /\ (pc = "attempt_failed" /\ pc' # "except") =>
             /\ idx' = 1
             /\ hist'.log = <<>>
      ]_vars

\* C11 witness: the third type's call returned on its third attempt, after
\* responses had been parsed during its failed attempts.
C11_Witness ==
    /\ pc = "normalize_texts"
    /\ attempt = 3
    /\ hist.discarded > 0
    /\ Len(results) = 3
    /\ hist.completed = <<1, 2, 3>>

====
